---- MODULE Spec2Model ----
(***************************************************************************)
(* Zakat blockchain simulation: Block (block.py), Blockchain (miner.py),   *)
(* Transaction (transaction.py), the operations of the session (app.py).   *)
(*                                                                         *)
(* Money.  The code computes with floats; the model computes with exact    *)
(* fixed-point integers, Coin units to one coin, and every amount of the   *)
(* model is a multiple of 40 units so that amount * 0.025 is exact.        *)
(*                                                                         *)
(* Python values.  A value that the code tests with isinstance carries its *)
(* tag: a block's transactions is [islist, text, items], a batch entry is  *)
(* [isdict, sender, receiver, amount, type].                               *)
(*                                                                         *)
(* Digests.  json.dumps(sort_keys) is the tuple of the four fields in key  *)
(* order, the seed string is that tuple paired with the roll number, and   *)
(* SHA-256 is collision-free: a digest is <<"sha256", seed>>.  The         *)
(* sentinel "0" of the genesis block is <<"0">>.                           *)
(*                                                                         *)
(* Time.  A block's timestamp is a reading of time.time(), later than the  *)
(* reading in the tip.  The advisory timestamp inside a record is read by  *)
(* no operation of the ledger and is left out of the records.              *)
(***************************************************************************)
EXTENDS Integers, Sequences, FiniteSets, TLC

VARIABLES
    chain,      \* Blockchain.chain: the sequence of blocks, chain[1] first
    accounts,   \* Blockchain.accounts: name -> [balance, roll_no]
    tampered,   \* the block field overwritten from outside the API, if any
    call,       \* the last operation called, its arguments and what it returned
    balances,   \* the balance map handed to Transaction.apply: name -> amount
    session_state   \* st.session_state: accounts, pending_transactions,
                    \* transaction_history

vars == <<chain, accounts, tampered, call, balances, session_state>>

---------------------------------------------------------------------------
(* Bounds *)

\* Longest chain explored, genesis included.
MaxChain == 3

\* Most batch entries in the whole chain.
MaxRecords == 2

\* Most transfers a session accepts.
MaxTransfers == 2

---------------------------------------------------------------------------
(* Values *)

Coin == 1600

ZakatAccount == "Zakat_Account"

Students == {"Alice", "Bob"}

Names == Students \cup {ZakatAccount}

\* A name no batch ever mentions.
Stranger == "Carol"

Rolls == {"0000", "r1"}

TransferAmount == 50 * Coin

\* amount * 0.025
calculate_zakat(amount) == (amount * 25) \div 1000

Tx(s, r, a, t) ==
    [isdict |-> TRUE, sender |-> s, receiver |-> r, amount |-> a, type |-> t]

\* A batch entry that is not a dict.
NotADict ==
    [isdict |-> FALSE, sender |-> "", receiver |-> "", amount |-> 0, type |-> ""]

\* The records of the model: transfers between the students, to oneself and
\* out of the zakat account, the levy records of the students, and a record
\* with a foreign type tag.
WellFormed ==
    { Tx("Alice", "Bob", TransferAmount, "transfer"),
      Tx("Bob", "Alice", TransferAmount, "transfer"),
      Tx("Alice", "Alice", TransferAmount, "transfer"),
      Tx(ZakatAccount, "Alice", TransferAmount, "transfer"),
      Tx("Alice", ZakatAccount, calculate_zakat(TransferAmount), "zakat"),
      Tx("Bob", ZakatAccount, calculate_zakat(TransferAmount), "zakat"),
      Tx("Alice", "Bob", TransferAmount, "gift") }

\* Entries that update_account_balances_from_block's guard turns away.
Malformed ==
    { Tx("Alice", "Bob", 0, "transfer"),
      Tx("", "Bob", TransferAmount, "transfer"),
      Tx("Alice", "", TransferAmount, "transfer"),
      NotADict }

Entries == WellFormed \cup Malformed

ListOf(items) == [islist |-> TRUE, text |-> "", items |-> items]

TextOf(s) == [islist |-> FALSE, text |-> s, items |-> <<>>]

GenesisMarker == TextOf("Genesis Block")

SeqsUpTo(S, n) == UNION {[1..k -> S] : k \in 0..n}

\* What a caller may hand to add_block: a list over E of at most n entries, or
\* a value that is not a list.
Batches(E, n) == {ListOf(items) : items \in SeqsUpTo(E, n)} \cup {GenesisMarker}

---------------------------------------------------------------------------
(* block.py *)

Sentinel == <<"0">>

SHA256(seed) == <<"sha256", seed>>

\* Mutant: the timestamp is left out of the hashed payload.
compute_hash_without_timestamp(b) ==
    SHA256(<<<<b.prev_hash, b.roll_no, b.transactions>>, b.roll_no>>)

\* Mutant: the roll number is left out of the hashed data.
compute_hash_without_roll_no(b) ==
    SHA256(<<<<b.prev_hash, b.timestamp, b.transactions>>, "">>)

compute_hash(b) ==
    LET block_string == <<b.prev_hash, b.roll_no, b.timestamp, b.transactions>>
        seed_string == <<block_string, b.roll_no>>
    IN  SHA256(seed_string)

\* Mutant: the hash is computed before the timestamp is stamped.
BlockHashedBeforeTimestamp(transactions, prev_hash, roll_no, now) ==
    [transactions |-> transactions, timestamp |-> now, roll_no |-> roll_no,
     prev_hash |-> prev_hash,
     hash |-> compute_hash([transactions |-> transactions, timestamp |-> 0,
                            roll_no |-> roll_no, prev_hash |-> prev_hash])]

Block(transactions, prev_hash, roll_no, now) ==
    LET fields == [transactions |-> transactions, timestamp |-> now,
                   roll_no |-> roll_no, prev_hash |-> prev_hash]
    IN  [transactions |-> transactions, timestamp |-> now, roll_no |-> roll_no,
         prev_hash |-> prev_hash, hash |-> compute_hash(fields)]

verify_integrity(b) == b.hash = compute_hash(b)

\* to_dict(): the five fields of the block as a dict, which is not a list.
to_dict(b) == [islist |-> FALSE, text |-> "dict", items |-> <<b>>]

---------------------------------------------------------------------------
(* miner.py *)

DefaultBalance == 200 * Coin

\* Mutant: the mirror enters an unseen account at balance 0.
NewAccountEmpty == [balance |-> 0, roll_no |-> "0000"]

NewAccount == [balance |-> DefaultBalance, roll_no |-> "0000"]

\* Mutant: the genesis block holds an empty batch instead of the marker.
create_genesis_block_empty_batch(roll_no) ==
    <<Block(ListOf(<<>>), Sentinel, roll_no, 1)>>

create_genesis_block(roll_no) == <<Block(GenesisMarker, Sentinel, roll_no, 1)>>

InitAccounts == (ZakatAccount :> [balance |-> 0, roll_no |-> "0000"])

WithAccount(acc, name) ==
    IF name \in DOMAIN acc THEN acc ELSE acc @@ (name :> NewAccount)

\* Mutant: the mirror debits the sender by the amount and the levy.
ApplyEntryWithLevy(acc, tx) ==
    IF tx.isdict /\ tx.sender # "" /\ tx.receiver # "" /\ tx.amount > 0
    THEN LET a1 == WithAccount(WithAccount(acc, tx.sender), tx.receiver)
             a2 == [a1 EXCEPT ![tx.sender].balance =
                                  @ - tx.amount - calculate_zakat(tx.amount)]
         IN  [a2 EXCEPT ![tx.receiver].balance = @ + tx.amount]
    ELSE acc

\* Mutant: the debit and the credit are both computed from the balances
\* read before either is written.
ApplyEntryFromOldBalances(acc, tx) ==
    IF tx.isdict /\ tx.sender # "" /\ tx.receiver # "" /\ tx.amount > 0
    THEN LET a1 == WithAccount(WithAccount(acc, tx.sender), tx.receiver)
             a2 == [a1 EXCEPT ![tx.sender].balance = a1[tx.sender].balance - tx.amount]
         IN  [a2 EXCEPT ![tx.receiver].balance = a1[tx.receiver].balance + tx.amount]
    ELSE acc

\* One pass of the loop body of update_account_balances_from_block.
ApplyEntry(acc, tx) ==
    IF tx.isdict /\ tx.sender # "" /\ tx.receiver # "" /\ tx.amount > 0
    THEN LET a1 == WithAccount(WithAccount(acc, tx.sender), tx.receiver)
             a2 == [a1 EXCEPT ![tx.sender].balance = @ - tx.amount]
         IN  [a2 EXCEPT ![tx.receiver].balance = @ + tx.amount]
    ELSE acc

RECURSIVE ApplyEntries(_, _, _)
ApplyEntries(acc, items, k) ==
    IF k > Len(items) THEN acc
    ELSE ApplyEntries(ApplyEntry(acc, items[k]), items, k + 1)

update_account_balances_from_block(acc, block) ==
    IF block.transactions.islist
    THEN ApplyEntries(acc, block.transactions.items, 1)
    ELSE acc

NewBlock(c, transactions, roll_no, now) ==
    Block(transactions, c[Len(c)].hash, roll_no, now)

\* Mutant: the new block is put in front of the chain.
add_block_in_front(c, acc, transactions, roll_no, now) ==
    IF Len(c) = 0
    THEN [chain |-> c, accounts |-> acc, ret |-> FALSE]
    ELSE LET new_block == NewBlock(c, transactions, roll_no, now)
         IN  [chain |-> <<new_block>> \o c,
              accounts |-> update_account_balances_from_block(acc, new_block),
              ret |-> TRUE]

\* Mutant: the mirror is updated from the batch before the chain is tested.
add_block_mirror_first(c, acc, transactions, roll_no, now) ==
    IF Len(c) = 0
    THEN [chain |-> c,
          accounts |-> update_account_balances_from_block(
                           acc, [transactions |-> transactions]),
          ret |-> FALSE]
    ELSE LET new_block == NewBlock(c, transactions, roll_no, now)
         IN  [chain |-> Append(c, new_block),
              accounts |-> update_account_balances_from_block(acc, new_block),
              ret |-> TRUE]

add_block(c, acc, transactions, roll_no, now) ==
    IF Len(c) = 0
    THEN [chain |-> c, accounts |-> acc, ret |-> FALSE]
    ELSE LET prev_block == c[Len(c)]
             new_block == NewBlock(c, transactions, roll_no, now)
         IN  IF verify_integrity(new_block) /\ new_block.prev_hash = prev_block.hash
             THEN [chain |-> Append(c, new_block),
                   accounts |-> update_account_balances_from_block(acc, new_block),
                   ret |-> TRUE]
             ELSE [chain |-> c, accounts |-> acc, ret |-> FALSE]

\* Mutant: every account, the zakat account too, starts from the default.
StartBalanceDefaultForAll(account_name) == DefaultBalance

StartBalance(account_name) ==
    IF account_name # ZakatAccount THEN DefaultBalance ELSE 0

\* One pass of the inner loop body of calculate_account_balance_from_history.
ReplayEntry(balance, tx, account_name) ==
    LET sent ==
            IF tx.isdict /\ tx.sender = account_name
            THEN IF tx.type = "transfer"
                 THEN balance - tx.amount - calculate_zakat(tx.amount)
                 ELSE IF tx.type = "zakat" THEN balance - tx.amount ELSE balance
            ELSE balance
    IN  IF tx.isdict /\ tx.receiver = account_name THEN sent + tx.amount ELSE sent

RECURSIVE ReplayEntries(_, _, _, _)
ReplayEntries(balance, items, k, account_name) ==
    IF k > Len(items) THEN balance
    ELSE ReplayEntries(ReplayEntry(balance, items[k], account_name),
                       items, k + 1, account_name)

RECURSIVE ReplayBlocks(_, _, _, _)
ReplayBlocks(balance, c, i, account_name) ==
    IF i > Len(c) THEN balance
    ELSE ReplayBlocks(
             IF c[i].transactions.islist
             THEN ReplayEntries(balance, c[i].transactions.items, 1, account_name)
             ELSE balance,
             c, i + 1, account_name)

\* Mutant: the replay starts from the balance the mirror holds for the
\* account, as Transaction.calculate_balance_from_blockchain does.
calculate_from_mirror_balance(c, account_name) ==
    ReplayBlocks(IF account_name \in DOMAIN accounts
                 THEN accounts[account_name].balance ELSE 0,
                 c, 1, account_name)

calculate_account_balance_from_history(c, account_name) ==
    ReplayBlocks(StartBalance(account_name), c, 1, account_name)

\* Mutant: the balance is compared with the amount alone, without the levy.
validate_without_levy(c, sender, receiver, amount) ==
    IF calculate_account_balance_from_history(c, sender) < amount
    THEN "InsufficientFunds" ELSE "ok"

validate_transaction_against_blockchain(c, sender, receiver, amount) ==
    LET sender_balance == calculate_account_balance_from_history(c, sender)
        zakat_amount == calculate_zakat(amount)
        total_amount == amount + zakat_amount
    IN  IF sender_balance < total_amount THEN "InsufficientFunds" ELSE "ok"

\* Mutant: "return True" inside the loop, after the first block that passes.
IsValidFirstOnly(c, i) ==
    IF i > Len(c) THEN TRUE
    ELSE IF ~verify_integrity(c[i]) THEN FALSE
    ELSE IF i > 1 /\ c[i].prev_hash # c[i - 1].hash THEN FALSE
    ELSE TRUE

RECURSIVE IsValidFrom(_, _)
IsValidFrom(c, i) ==
    IF i > Len(c) THEN TRUE
    ELSE IF ~verify_integrity(c[i]) THEN FALSE
    ELSE IF i > 1 /\ c[i].prev_hash # c[i - 1].hash THEN FALSE
    ELSE IsValidFrom(c, i + 1)

is_valid(c) == IF Len(c) = 0 THEN FALSE ELSE IsValidFrom(c, 1)

\* Python's None; a value v that may be None instead is carried as <<v>>.
None == <<>>

get_latest_block(c) == IF Len(c) > 0 THEN <<c[Len(c)]>> ELSE None

\* Mutant: the lower bound is not tested, and chain[index] counts a negative
\* index from the end.
get_block_by_index_from_the_end(c, index) ==
    IF index < Len(c) /\ index >= 0 - Len(c)
    THEN <<c[IF index >= 0 THEN index + 1 ELSE Len(c) + index + 1]>>
    ELSE None

\* chain[index] of the code is c[index + 1] of the model.
get_block_by_index(c, index) ==
    IF 0 <= index /\ index < Len(c) THEN <<c[index + 1]>> ELSE None

get_chain_length(c) == Len(c)

verify_block_integrity(c, block_index) ==
    IF 0 <= block_index /\ block_index < Len(c)
    THEN verify_integrity(c[block_index + 1])
    ELSE FALSE

RECURSIVE HistoryFrom(_, _)
HistoryFrom(c, i) ==
    IF i > Len(c) THEN <<>>
    ELSE (IF c[i].transactions.islist THEN c[i].transactions.items ELSE <<>>)
         \o HistoryFrom(c, i + 1)

\* get_transaction_history(): the entries of the list-typed blocks, in chain order.
get_transaction_history(c) == HistoryFrom(c, 1)

\* list(set(...)): the roll numbers in no particular order, each once.
get_roll_numbers_used(c) == {c[i].roll_no : i \in 1..Len(c)}

---------------------------------------------------------------------------
(* transaction.py *)

\* Every value of the mirror is a dict already, and is returned as it is.
get_all_accounts(acc) == acc

\* The balance the transaction replays the chain onto: the mirror's balance
\* of the account, or 0.0 for a name the mirror does not hold.
calculate_balance_from_blockchain(c, acc, account_name) ==
    LET balance == IF account_name \in DOMAIN get_all_accounts(acc)
                   THEN get_all_accounts(acc)[account_name].balance
                   ELSE 0
    IN  ReplayBlocks(balance, c, 1, account_name)

\* Transaction(sender, receiver, amount).validate_against_blockchain(
\*     blockchain, accounts), the blockchain given by its chain c and mirror acc.
validate_against_blockchain(c, acc, known, sender, receiver, amount) ==
    LET sender_balance == calculate_balance_from_blockchain(c, acc, sender)
    IN  IF sender_balance < amount THEN "InsufficientFunds"
        ELSE IF sender \notin known THEN "UnknownAccount"
        ELSE IF receiver \notin known THEN "UnknownAccount"
        ELSE IF amount <= 0 THEN "NonPositiveAmount"
        ELSE IF sender = receiver THEN "SelfTransfer"
        ELSE "ok"

\* What apply leaves behind: the map, and the exception it raised, if any.
Applied(acc, raised) == [accounts |-> acc, raised |-> raised]

\* Mutant: the sender is debited first and the funds are tested afterwards.
apply_debit_before_test(acc, sender, receiver, amount) ==
    IF sender \notin DOMAIN acc THEN Applied(acc, "UnknownAccount")
    ELSE IF receiver \notin DOMAIN acc THEN Applied(acc, "UnknownAccount")
    ELSE IF amount <= 0 THEN Applied(acc, "NonPositiveAmount")
    ELSE LET debited == [acc EXCEPT ![sender] = @ - amount]
         IN  IF debited[sender] < 0 THEN Applied(debited, "InsufficientFunds")
             ELSE Applied([debited EXCEPT ![receiver] = @ + amount], "none")

\* Mutant: the receiver is credited and the sender is not debited.
apply_without_debit(acc, sender, receiver, amount) ==
    IF sender \notin DOMAIN acc THEN Applied(acc, "UnknownAccount")
    ELSE IF receiver \notin DOMAIN acc THEN Applied(acc, "UnknownAccount")
    ELSE IF amount <= 0 THEN Applied(acc, "NonPositiveAmount")
    ELSE IF acc[sender] < amount THEN Applied(acc, "InsufficientFunds")
    ELSE Applied([acc EXCEPT ![receiver] = @ + amount], "none")

\* Transaction(sender, receiver, amount).apply(accounts): the map is changed
\* in place and returned, or an exception is raised.
apply(acc, sender, receiver, amount) ==
    IF sender \notin DOMAIN acc THEN Applied(acc, "UnknownAccount")
    ELSE IF receiver \notin DOMAIN acc THEN Applied(acc, "UnknownAccount")
    ELSE IF amount <= 0 THEN Applied(acc, "NonPositiveAmount")
    ELSE IF acc[sender] < amount THEN Applied(acc, "InsufficientFunds")
    ELSE LET debited == [acc EXCEPT ![sender] = @ - amount]
         IN  Applied([debited EXCEPT ![receiver] = @ + amount], "none")

\* Mutant: the two names are compared before they are tested for emptiness.
validate_same_first(sender, receiver, amount) ==
    IF sender = receiver THEN "SelfTransfer"
    ELSE IF sender = "" \/ receiver = "" THEN "EmptyIdentifier"
    ELSE IF amount <= 0 THEN "NonPositiveAmount"
    ELSE "ok"

\* Transaction(sender, receiver, amount).validate(); "not s" holds of the
\* empty string.
validate(sender, receiver, amount) ==
    IF sender = "" \/ receiver = "" THEN "EmptyIdentifier"
    ELSE IF sender = receiver THEN "SelfTransfer"
    ELSE IF amount <= 0 THEN "NonPositiveAmount"
    ELSE "ok"

---------------------------------------------------------------------------
(* app.py *)

\* st.session_state after the first run of the script.  Every value of
\* accounts is a dict (no operation stores a bare balance), its created_at
\* is read by no operation and is left out.
InitSession ==
    [accounts |-> (ZakatAccount :> [balance |-> 0, roll_no |-> "0000"]),
     pending_transactions |-> <<>>,
     transaction_history |-> <<>>]

\* str.strip() on the roll numbers of the model.
strip(s) ==
    CASE s = " r2 " -> "r2"
      [] s = " " -> ""
      [] OTHER -> s

\* What an operation of the session leaves behind and returns.
Returned(sess, success, message) ==
    [session |-> sess, ret |-> <<success, message>>]

create_account(sess, name, balance, roll_no) ==
    IF name \in DOMAIN sess.accounts
    THEN Returned(sess, FALSE, "Account already exists")
    ELSE IF balance < 0
    THEN Returned(sess, FALSE, "Balance cannot be negative")
    ELSE IF roll_no = "" \/ strip(roll_no) = ""
    THEN Returned(sess, FALSE, "Roll number cannot be empty")
    ELSE Returned(
             [sess EXCEPT !.accounts =
                 @ @@ (name :> [balance |-> balance, roll_no |-> strip(roll_no)])],
             TRUE, "created")

\* The entry perform_transaction appends to transaction_history.
HistoryRecord(sender, receiver, amount, zakat_amount, remaining, type) ==
    [sender |-> sender, receiver |-> receiver, amount |-> amount,
     zakat_amount |-> zakat_amount, total_cost |-> amount + zakat_amount,
     sender_remaining_balance |-> remaining, type |-> type]

\* f"Transaction failed: {str(e)}" for the exception e that an apply raised.
Failed(raised) ==
    CASE raised = "InsufficientFunds" -> "Transaction failed: InsufficientFunds"
      [] raised = "UnknownAccount" -> "Transaction failed: UnknownAccount"
      [] raised = "NonPositiveAmount" -> "Transaction failed: NonPositiveAmount"

\* st.session_state.accounts with the zakat account put back if it is missing.
WithZakatAccount(acc) ==
    IF ZakatAccount \notin DOMAIN acc
    THEN acc @@ (ZakatAccount :> [balance |-> 0, roll_no |-> "0000"])
    ELSE acc

\* Mutant: the two transactions are applied to the balances of the session
\* themselves, not to a copy of them.
perform_transaction_in_place(sess, c, sender, receiver, amount) ==
    IF sender \notin DOMAIN sess.accounts
    THEN Returned(sess, FALSE, "UnknownAccount")
    ELSE IF receiver \notin DOMAIN sess.accounts
    THEN Returned(sess, FALSE, "UnknownAccount")
    ELSE IF amount <= 0
    THEN Returned(sess, FALSE, "NonPositiveAmount")
    ELSE IF validate_transaction_against_blockchain(c, sender, receiver, amount) # "ok"
    THEN Returned(sess, FALSE, "InsufficientFunds")
    ELSE
      LET zakat_amount == calculate_zakat(amount)
          session_accounts == WithZakatAccount(sess.accounts)
          temp_accounts == [n \in DOMAIN session_accounts |-> session_accounts[n].balance]
          main_transaction == apply(temp_accounts, sender, receiver, amount)
          zakat_transaction ==
              apply(main_transaction.accounts, sender, ZakatAccount, zakat_amount)
          written(m) ==
              [n \in DOMAIN session_accounts |->
                  [session_accounts[n] EXCEPT !.balance = m[n]]]
      IN  IF main_transaction.raised # "none"
          THEN Returned([sess EXCEPT !.accounts = written(main_transaction.accounts)],
                        FALSE, Failed(main_transaction.raised))
          ELSE IF zakat_transaction.raised # "none"
          THEN Returned([sess EXCEPT !.accounts = written(zakat_transaction.accounts)],
                        FALSE, Failed(zakat_transaction.raised))
          ELSE Returned(
                   [accounts |-> written(zakat_transaction.accounts),
                    transaction_history |->
                        sess.transaction_history \o
                        <<HistoryRecord(sender, receiver, amount, zakat_amount,
                                        zakat_transaction.accounts[sender], "transfer"),
                          HistoryRecord(sender, ZakatAccount, zakat_amount, 0,
                                        zakat_transaction.accounts[sender], "zakat")>>,
                    pending_transactions |->
                        sess.pending_transactions \o
                        <<Tx(sender, receiver, amount, "transfer"),
                          Tx(sender, ZakatAccount, zakat_amount, "zakat")>>],
                   TRUE, "ok")

\* perform_transaction(sender, receiver, amount) on the session sess and the
\* chain c of its ledger.  The exception of an apply is caught and returned as
\* the message.
perform_transaction(sess, c, sender, receiver, amount) ==
    IF sender \notin DOMAIN sess.accounts
    THEN Returned(sess, FALSE, "UnknownAccount")
    ELSE IF receiver \notin DOMAIN sess.accounts
    THEN Returned(sess, FALSE, "UnknownAccount")
    ELSE IF amount <= 0
    THEN Returned(sess, FALSE, "NonPositiveAmount")
    ELSE IF validate_transaction_against_blockchain(c, sender, receiver, amount) # "ok"
    THEN Returned(sess, FALSE, "InsufficientFunds")
    ELSE
      LET zakat_amount == calculate_zakat(amount)
          session_accounts == WithZakatAccount(sess.accounts)
          temp_accounts == [n \in DOMAIN session_accounts |-> session_accounts[n].balance]
          main_transaction == apply(temp_accounts, sender, receiver, amount)
          zakat_transaction ==
              apply(main_transaction.accounts, sender, ZakatAccount, zakat_amount)
      IN  IF main_transaction.raised # "none"
          THEN Returned([sess EXCEPT !.accounts = session_accounts],
                        FALSE, Failed(main_transaction.raised))
          ELSE IF zakat_transaction.raised # "none"
          THEN Returned([sess EXCEPT !.accounts = session_accounts],
                        FALSE, Failed(zakat_transaction.raised))
          ELSE Returned(
                   [accounts |->
                        [n \in DOMAIN session_accounts |->
                            [session_accounts[n] EXCEPT
                                !.balance = zakat_transaction.accounts[n]]],
                    transaction_history |->
                        sess.transaction_history \o
                        <<HistoryRecord(sender, receiver, amount, zakat_amount,
                                        zakat_transaction.accounts[sender], "transfer"),
                          HistoryRecord(sender, ZakatAccount, zakat_amount, 0,
                                        zakat_transaction.accounts[sender], "zakat")>>,
                    pending_transactions |->
                        sess.pending_transactions \o
                        <<Tx(sender, receiver, amount, "transfer"),
                          Tx(sender, ZakatAccount, zakat_amount, "zakat")>>],
                   TRUE, "ok")

\* What mine_block leaves behind and returns.
Mined(sess, c, acc, success, message) ==
    [session |-> sess, chain |-> c, accounts |-> acc, ret |-> <<success, message>>]

\* Mutant: the pending list is emptied and no block is added.
mine_block_without_add_block(sess, c, acc, now) ==
    IF sess.pending_transactions = <<>>
    THEN Mined(sess, c, acc, FALSE, "No pending transactions to mine")
    ELSE Mined([sess EXCEPT !.pending_transactions = <<>>], c, acc, TRUE, "0000")

\* Mutant: the block is mined from the first pending record alone.
mine_block_first_record_only(sess, c, acc, now) ==
    IF sess.pending_transactions = <<>>
    THEN Mined(sess, c, acc, FALSE, "No pending transactions to mine")
    ELSE LET sender == sess.pending_transactions[1].sender
             roll_no == IF sender \in DOMAIN sess.accounts
                        THEN sess.accounts[sender].roll_no ELSE "0000"
             r == add_block(c, acc, ListOf(<<sess.pending_transactions[1]>>),
                            roll_no, now)
         IN  IF r.ret
             THEN Mined([sess EXCEPT !.pending_transactions = <<>>],
                        r.chain, r.accounts, TRUE, roll_no)
             ELSE Mined(sess, r.chain, r.accounts, FALSE, "Failed to mine block")

\* Mutant: the pending list is kept after the block was mined.
mine_block_keeping_pending(sess, c, acc, now) ==
    IF sess.pending_transactions = <<>>
    THEN Mined(sess, c, acc, FALSE, "No pending transactions to mine")
    ELSE LET sender == sess.pending_transactions[1].sender
             roll_no == IF sender \in DOMAIN sess.accounts
                        THEN sess.accounts[sender].roll_no ELSE "0000"
             r == add_block(c, acc, ListOf(sess.pending_transactions), roll_no, now)
         IN  IF r.ret
             THEN Mined(sess, r.chain, r.accounts, TRUE, roll_no)
             ELSE Mined(sess, r.chain, r.accounts, FALSE, "Failed to mine block")

\* mine_block() on the session sess and its ledger (chain c, mirror acc), the
\* block stamped at now.
mine_block(sess, c, acc, now) ==
    IF sess.pending_transactions = <<>>
    THEN Mined(sess, c, acc, FALSE, "No pending transactions to mine")
    ELSE LET first_tx == sess.pending_transactions[1]
             sender == first_tx.sender
             roll_no == IF sender \in DOMAIN sess.accounts
                        THEN sess.accounts[sender].roll_no ELSE "0000"
             r == add_block(c, acc, ListOf(sess.pending_transactions), roll_no, now)
         IN  IF r.ret
             THEN Mined([sess EXCEPT !.pending_transactions = <<>>],
                        r.chain, r.accounts, TRUE, roll_no)
             ELSE Mined(sess, r.chain, r.accounts, FALSE, "Failed to mine block")

---------------------------------------------------------------------------
(* The ledger as a state machine *)

Untouched == [field |-> "none", index |-> 0]

\* No operation was called yet.
NoCall == [op |-> "none", args |-> <<>>, ret |-> <<>>]

\* No balance map was built yet.
NoBalances == <<>>

RECURSIVE CountEntries(_, _)
CountEntries(c, i) ==
    IF i > Len(c) THEN 0
    ELSE Len(c[i].transactions.items) + CountEntries(c, i + 1)

\* Blockchain(roll_no)
Init ==
    \E roll_no \in Rolls :
        /\ chain = create_genesis_block(roll_no)
        /\ accounts = InitAccounts
        /\ tampered = Untouched
        /\ call = NoCall
        /\ balances = NoBalances
        /\ session_state = InitSession

\* time.time() at the construction of the next block: later than the tip's.
Clock(c) == {c[Len(c)].timestamp + 1}

\* add_block(transactions, roll_no), the batch drawn over the entries E.
Mine(E) ==
    /\ tampered = Untouched
    /\ Len(chain) < MaxChain
    /\ \E transactions \in Batches(E, MaxRecords - CountEntries(chain, 1)),
          roll_no \in Rolls, now \in Clock(chain) :
            LET r == add_block(chain, accounts, transactions, roll_no, now)
            IN  /\ chain' = r.chain
                /\ accounts' = r.accounts
    /\ UNCHANGED <<tampered, call, balances, session_state>>

AddBlock == Mine(Entries)

Next == AddBlock

Spec == Init /\ [][Next]_vars

---------------------------------------------------------------------------
(* Tampering: a field of a block already in the chain is overwritten from   *)
(* outside the API (Python does not prevent it), once, and nothing else     *)
(* happens afterwards.                                                      *)

\* The hash claims do not read the entries: three of them are enough.
FewEntries ==
    { Tx("Alice", "Bob", TransferAmount, "transfer"),
      Tx("Alice", ZakatAccount, calculate_zakat(TransferAmount), "zakat"),
      NotADict }

AddBlockHashed == Mine(FewEntries)

\* Digests to overwrite a hash or a prev_hash with: the sentinel, every digest
\* of the chain, and the digest of each block as another roll number seals it.
Digests(c) ==
    {Sentinel}
    \cup {c[j].hash : j \in 1..Len(c)}
    \cup {compute_hash([c[j] EXCEPT !.roll_no = "r2"]) : j \in 1..Len(c)}

TamperHash ==
    /\ tampered = Untouched
    /\ \E i \in 1..Len(chain), h \in Digests(chain) :
          /\ h # chain[i].hash
          /\ chain' = [chain EXCEPT ![i].hash = h]
          /\ tampered' = [field |-> "hash", index |-> i]
    /\ UNCHANGED <<accounts, call, balances, session_state>>

TamperPrevHash ==
    /\ tampered = Untouched
    /\ \E i \in 1..Len(chain), h \in Digests(chain) :
          /\ h # chain[i].prev_hash
          /\ chain' = [chain EXCEPT ![i].prev_hash = h]
          /\ tampered' = [field |-> "prev_hash", index |-> i]
    /\ UNCHANGED <<accounts, call, balances, session_state>>

TamperTransactions ==
    /\ tampered = Untouched
    /\ \E i \in 1..Len(chain), t \in Batches(FewEntries, 1) :
          /\ t # chain[i].transactions
          /\ chain' = [chain EXCEPT ![i].transactions = t]
          /\ tampered' = [field |-> "transactions", index |-> i]
    /\ UNCHANGED <<accounts, call, balances, session_state>>

TamperTimestamp ==
    /\ tampered = Untouched
    /\ \E i \in 1..Len(chain) : \E t \in {0, chain[i].timestamp + 1} :
          /\ t # chain[i].timestamp
          /\ chain' = [chain EXCEPT ![i].timestamp = t]
          /\ tampered' = [field |-> "timestamp", index |-> i]
    /\ UNCHANGED <<accounts, call, balances, session_state>>

TamperRollNo ==
    /\ tampered = Untouched
    /\ \E i \in 1..Len(chain), r \in Rolls \cup {"r2"} :
          /\ r # chain[i].roll_no
          /\ chain' = [chain EXCEPT ![i].roll_no = r]
          /\ tampered' = [field |-> "roll_no", index |-> i]
    /\ UNCHANGED <<accounts, call, balances, session_state>>

TamperNext ==
    \/ AddBlockHashed
    \/ TamperHash
    \/ TamperPrevHash
    \/ TamperTransactions
    \/ TamperTimestamp
    \/ TamperRollNo

TamperSpec == Init /\ [][TamperNext]_vars

---------------------------------------------------------------------------
(* Tampering that covers its tracks: a field of a block is overwritten and  *)
(* the block's hash is overwritten with block.compute_hash().               *)

\* The block b with one of its four hashed fields holding another value.
Overwritten(c, b) ==
    ( {[b EXCEPT !.transactions = t] : t \in Batches(FewEntries, 1)}
      \cup {[b EXCEPT !.roll_no = r] : r \in Rolls \cup {"r2"}}
      \cup {[b EXCEPT !.timestamp = b.timestamp + 1]}
      \cup {[b EXCEPT !.prev_hash = h] : h \in Digests(c)} ) \ {b}

TamperAndReseal ==
    /\ tampered = Untouched
    /\ \E i \in 1..Len(chain) : \E b \in Overwritten(chain, chain[i]) :
          /\ chain' = [chain EXCEPT ![i] = [b EXCEPT !.hash = compute_hash(b)]]
          /\ tampered' = [field |-> "resealed", index |-> i]
    /\ UNCHANGED <<accounts, call, balances, session_state>>

ResealNext ==
    \/ TamperNext
    \/ TamperAndReseal

ResealSpec == Init /\ [][ResealNext]_vars

---------------------------------------------------------------------------
(* The ledger and its callers: every operation of Blockchain is called in   *)
(* any order, and call records the last one with what it returned.  The     *)
(* chain may also be emptied from outside, which no operation does.         *)

Called(op, args, ret) == [op |-> op, args |-> args, ret |-> ret]

\* The operation leaves the ledger as it is.
Query(op, args, ret) ==
    /\ call' = Called(op, args, ret)
    /\ UNCHANGED <<chain, accounts, tampered, balances, session_state>>

\* Indexes to ask a block for: below, inside and above the chain.
Indexes == (0 - 1)..MaxChain

\* The entries of the batches the callers mine: a record and an entry that
\* is no record.
ApiEntries == {Tx("Alice", "Bob", TransferAmount, "transfer"), NotADict}

\* add_block(transactions, roll_no), on the emptied chain too.
CallAddBlock ==
    /\ Len(chain) < MaxChain
    /\ \E transactions \in Batches(ApiEntries, MaxRecords - CountEntries(chain, 1)),
          roll_no \in Rolls,
          now \in (IF Len(chain) = 0 THEN {0} ELSE Clock(chain)) :
            LET r == add_block(chain, accounts, transactions, roll_no, now)
            IN  /\ chain' = r.chain
                /\ accounts' = r.accounts
                /\ call' = Called("add_block", <<transactions, roll_no>>, r.ret)
    /\ UNCHANGED <<tampered, balances, session_state>>

\* Mutant: the validation enters a sender it has not seen into the mirror.
CallValidateRegisteringSender ==
    \E sender \in {"Alice", Stranger}, amount \in {50 * Coin, 200 * Coin} :
        /\ call' = Called("validate_transaction_against_blockchain",
                          <<sender, "Bob", amount>>,
                          validate_transaction_against_blockchain(
                              chain, sender, "Bob", amount))
        /\ accounts' = WithAccount(accounts, sender)
        /\ UNCHANGED <<chain, tampered, balances, session_state>>

CallValidate ==
    \E sender \in {"Alice", Stranger}, amount \in {50 * Coin, 200 * Coin} :
        Query("validate_transaction_against_blockchain", <<sender, "Bob", amount>>,
              validate_transaction_against_blockchain(chain, sender, "Bob", amount))

CallCalculate ==
    \E account_name \in {"Alice", ZakatAccount, Stranger} :
        Query("calculate_account_balance_from_history", <<account_name>>,
              calculate_account_balance_from_history(chain, account_name))

CallIsValid == Query("is_valid", <<>>, is_valid(chain))

CallGetLatestBlock == Query("get_latest_block", <<>>, get_latest_block(chain))

CallGetBlockByIndex ==
    \E index \in Indexes :
        Query("get_block_by_index", <<index>>, get_block_by_index(chain, index))

CallGetChainLength == Query("get_chain_length", <<>>, get_chain_length(chain))

CallGetTransactionHistory ==
    Query("get_transaction_history", <<>>, get_transaction_history(chain))

CallVerifyBlockIntegrity ==
    \E block_index \in Indexes :
        Query("verify_block_integrity", <<block_index>>,
              verify_block_integrity(chain, block_index))

CallGetRollNumbersUsed ==
    Query("get_roll_numbers_used", <<>>, get_roll_numbers_used(chain))

\* blockchain.chain = [] from outside the API.
ClearChain ==
    /\ tampered = Untouched
    /\ chain' = <<>>
    /\ tampered' = [field |-> "chain", index |-> 0]
    /\ call' = Called("chain = []", <<>>, <<>>)
    /\ UNCHANGED <<accounts, balances, session_state>>

ApiNext ==
    \/ CallAddBlock
    \/ CallValidate
    \/ CallCalculate
    \/ CallIsValid
    \/ CallGetLatestBlock
    \/ CallGetBlockByIndex
    \/ CallGetChainLength
    \/ CallGetTransactionHistory
    \/ CallVerifyBlockIntegrity
    \/ CallGetRollNumbersUsed
    \/ ClearChain

ApiSpec == Init /\ [][ApiNext]_vars

---------------------------------------------------------------------------
(* A caller hands add_block a block built by hand.  add_block takes a batch *)
(* and a roll number and builds the candidate itself, so the block can only *)
(* go where the batch goes, in its serialisable form.                       *)

\* Block(transactions, prev_hash, roll_no) built by the caller, with a
\* prev_hash that is not the hash of the tip.
HandCrafted(c) ==
    { Block(ListOf(<<tx>>), prev_hash, roll_no, now) :
          tx \in FewEntries, prev_hash \in Digests(c) \ {c[Len(c)].hash},
          roll_no \in Rolls, now \in Clock(c) }

CallAddBlockHandCrafted ==
    /\ tampered = Untouched
    /\ Len(chain) < MaxChain
    /\ \E crafted \in HandCrafted(chain), roll_no \in Rolls, now \in Clock(chain) :
          LET r == add_block(chain, accounts, to_dict(crafted), roll_no, now)
          IN  /\ chain' = r.chain
              /\ accounts' = r.accounts
              /\ call' = Called("add_block", <<to_dict(crafted), roll_no>>, r.ret)
    /\ UNCHANGED <<tampered, balances, session_state>>

CraftNext ==
    \/ CallAddBlock
    \/ CallAddBlockHandCrafted

CraftSpec == Init /\ [][CraftNext]_vars

---------------------------------------------------------------------------
(* Transactions and a balance map: a caller builds a map of balances, as    *)
(* perform_transaction does from the accounts of the session, and applies   *)
(* transactions to it one after the other; it validates transactions.       *)

\* Balances a map may start with.
StartAmounts == {0 - 50 * Coin, 0, 50 * Coin, 200 * Coin}

\* Amounts of the transactions.
TxAmounts == {0 - 50 * Coin, 0, 50 * Coin, 250 * Coin}

\* temp_accounts = {...}, once, before the transactions.
NewBalances ==
    /\ call.op = "none"
    /\ \E D \in SUBSET Names : \E m \in [D -> StartAmounts] :
          balances' = m
    /\ call' = Called("temp_accounts", <<>>, <<>>)
    /\ UNCHANGED <<chain, accounts, tampered, session_state>>

\* Transaction(sender, receiver, amount).apply(temp_accounts)
CallApply ==
    /\ \E sender \in Names, receiver \in Names, amount \in TxAmounts :
          LET r == apply(balances, sender, receiver, amount)
          IN  /\ balances' = r.accounts
              /\ call' = Called("apply", <<sender, receiver, amount, balances>>, r)
    /\ UNCHANGED <<chain, accounts, tampered, session_state>>

\* Transaction(sender, receiver, amount).validate()
CallTransactionValidate ==
    /\ \E sender \in Students \cup {""}, receiver \in Students \cup {""},
          amount \in TxAmounts :
          call' = Called("validate", <<sender, receiver, amount>>,
                         validate(sender, receiver, amount))
    /\ UNCHANGED <<chain, accounts, tampered, balances, session_state>>

TransactionNext ==
    \/ NewBalances
    \/ CallApply
    \/ CallTransactionValidate

TransactionSpec == Init /\ [][TransactionNext]_vars

---------------------------------------------------------------------------
(* Blocks built next to a ledger: a caller constructs a block from a batch, *)
(* a prev_hash and a roll number, at a reading of the clock that may be the *)
(* reading in the tip.                                                      *)

CallBlock ==
    /\ tampered = Untouched
    /\ \E transactions \in {chain[Len(chain)].transactions, ListOf(<<>>)},
          prev_hash \in {chain[Len(chain)].prev_hash, chain[Len(chain)].hash},
          roll_no \in Rolls \cup {"r2"},
          now \in {chain[Len(chain)].timestamp, chain[Len(chain)].timestamp + 1} :
            call' = Called("Block", <<transactions, prev_hash, roll_no>>,
                           Block(transactions, prev_hash, roll_no, now))
    /\ UNCHANGED <<chain, accounts, tampered, balances, session_state>>

HashNext ==
    \/ CallAddBlock
    \/ CallBlock

HashSpec == Init /\ [][HashNext]_vars

---------------------------------------------------------------------------
(* The session: the operations of app.py are called in any order on the     *)
(* session state and its ledger, and call records the last one with what it *)
(* returned.  A transfer is asked for while the session has accepted fewer  *)
(* than MaxTransfers; a block is mined from pending records only, so the    *)
(* chain holds at most MaxTransfers blocks behind the genesis block.        *)

\* Balances to create an account with.
CreateBalances == {0 - 50 * Coin, 50 * Coin, DefaultBalance}

\* Roll numbers to create an account with.
RollInputs == {" r2 ", " ", ""}

\* Amounts to transfer.
SessionAmounts == {0, 50 * Coin, 195 * Coin}

\* Senders and receivers of the transfers: two students, a student to
\* oneself, and the zakat account as receiver and as sender.
TransferPairs ==
    { <<"Alice", "Bob">>, <<"Bob", "Alice">>, <<"Alice", "Alice">>,
      <<"Alice", ZakatAccount>>, <<ZakatAccount, "Alice">> }

\* create_account(name, balance, roll_no), the balance drawn from B.
CallCreateAccount(B) ==
    /\ \E name \in Students, balance \in B, roll_no \in RollInputs :
          LET r == create_account(session_state, name, balance, roll_no)
          IN  /\ session_state' = r.session
              /\ call' = Called("create_account", <<name, balance, roll_no>>, r.ret)
    /\ UNCHANGED <<chain, accounts, tampered, balances>>

CallPerformTransaction ==
    /\ Len(session_state.transaction_history) < 2 * MaxTransfers
    /\ \E pair \in TransferPairs, amount \in SessionAmounts :
          LET r == perform_transaction(session_state, chain, pair[1], pair[2], amount)
          IN  /\ session_state' = r.session
              /\ call' = Called("perform_transaction",
                                <<pair[1], pair[2], amount>>, r.ret)
    /\ UNCHANGED <<chain, accounts, tampered, balances>>

CallMineBlock ==
    /\ \E now \in (IF Len(chain) = 0 THEN {0} ELSE Clock(chain)) :
          LET r == mine_block(session_state, chain, accounts, now)
          IN  /\ session_state' = r.session
              /\ chain' = r.chain
              /\ accounts' = r.accounts
              /\ call' = Called("mine_block", <<>>, r.ret)
    /\ UNCHANGED <<tampered, balances>>

AppNext ==
    \/ CallCreateAccount(CreateBalances)
    \/ CallPerformTransaction
    \/ CallMineBlock

AppSpec == Init /\ [][AppNext]_vars

\* Every account is created with the default balance.
DefaultNext ==
    \/ CallCreateAccount({DefaultBalance})
    \/ CallPerformTransaction
    \/ CallMineBlock

DefaultSpec == Init /\ [][DefaultNext]_vars

\* The chain of the session's ledger may be emptied from outside.
EmptiedNext ==
    \/ AppNext
    \/ ClearChain

EmptiedSpec == Init /\ [][EmptiedNext]_vars

\* What a successful mine_block does to the session: the pending records
\* leave the queue.  No other operation empties a queue that holds records.
QueueEmptied ==
    session_state' = [session_state EXCEPT !.pending_transactions = <<>>]

\* mine_block is invoked, sooner or later, whenever records are pending: weak
\* fairness of the step of mine_block that empties the queue.
FairSpec == Init /\ [][DefaultNext]_vars /\ WF_session_state(QueueEmptied)

---------------------------------------------------------------------------
(* Vocabulary of the properties *)

RECURSIVE Sum(_)
Sum(s) == IF s = <<>> THEN 0 ELSE Head(s) + Sum(Tail(s))

Tip(c) == c[Len(c)]

Balance(c, name) == calculate_account_balance_from_history(c, name)

\* The step appended one block.
Grew == Len(chain') = Len(chain) + 1

\* The two records perform_transaction queues for a transfer of a from S to R.
PairBatch(S, R, a) ==
    ListOf(<<Tx(S, R, a, "transfer"),
             Tx(S, ZakatAccount, calculate_zakat(a), "zakat")>>)

\* Names to ask a balance for: those of the records, one that no record
\* mentions, and the empty name.
Askable == Names \cup {Stranger, ""}

\* Amounts to ask a validation for.
Asked == {50 * Coin, 150 * Coin, 200 * Coin}

---------------------------------------------------------------------------
(* C1.  A transfer of a from S to R (S # R, neither the zakat account) that *)
(* validate_transaction_against_blockchain accepts and add_block then mines *)
(* as the pair [transfer a, zakat a * 0.025] lowers the replayed balance of *)
(* S by exactly a * 1.025, raises that of R by a and that of the zakat      *)
(* account by a * 0.025.                                                    *)
C1_MinedTransferCostsAmountPlusLevy ==
    [][\A S \in Students, R \in Students :
         ( /\ S # R
           /\ validate_transaction_against_blockchain(chain, S, R, TransferAmount) = "ok"
           /\ Grew
           /\ Tip(chain').transactions = PairBatch(S, R, TransferAmount) )
         => /\ Balance(chain', S)
                 = Balance(chain, S) - TransferAmount - calculate_zakat(TransferAmount)
            /\ Balance(chain', R) = Balance(chain, R) + TransferAmount
            /\ Balance(chain', ZakatAccount)
                 = Balance(chain, ZakatAccount) + calculate_zakat(TransferAmount)
      ]_vars

---------------------------------------------------------------------------
(* C2.  In every state reached from Blockchain() by add_block calls,        *)
(* is_valid() is true: the chain is not empty, every block's stored hash is *)
(* its recomputed hash, and every block after the first names the hash of   *)
(* its predecessor.                                                         *)
C2_ChainAlwaysValid ==
    /\ is_valid(chain)
    /\ Len(chain) >= 1
    /\ \A i \in 1..Len(chain) : chain[i].hash = compute_hash(chain[i])
    /\ \A i \in 2..Len(chain) : chain[i].prev_hash = chain[i - 1].hash

\* Two mined blocks, sealed with different roll numbers, the first not empty.
C2_Witness ==
    /\ Len(chain) = 3
    /\ chain[2].roll_no # chain[3].roll_no
    /\ chain[2].transactions.islist
    /\ Len(chain[2].transactions.items) > 0
    /\ is_valid(chain)

---------------------------------------------------------------------------
(* C3.  After only the stored hash of one block (genesis, middle or tip) is *)
(* changed to another value, or only the prev_hash of one block after the   *)
(* first is changed to a value other than its predecessor's hash,           *)
(* is_valid() is false: it looks at every block.                            *)
C3_TamperedHashOrLinkDetected ==
    /\ tampered.field = "hash" => ~is_valid(chain)
    /\ (tampered.field = "prev_hash" /\ tampered.index > 1) => ~is_valid(chain)

\* The hash of the middle block of three was overwritten; the first block is
\* intact, and is_valid still answers false.
C3_Witness ==
    /\ Len(chain) = 3
    /\ tampered = [field |-> "hash", index |-> 2]
    /\ verify_integrity(chain[1])
    /\ ~is_valid(chain)

---------------------------------------------------------------------------
(* C4.  verify_integrity() is true right after construction, whatever the   *)
(* transactions, prev_hash and roll number, and false once one of           *)
(* transactions, timestamp, roll_no, prev_hash holds another value while    *)
(* the stored hash is the old one.                                          *)
C4_IntegrityAfterConstructionAndTampering ==
    /\ \A t \in Batches(FewEntries, 1), p \in Digests(chain), r \in Rolls,
          now \in Clock(chain) :
            verify_integrity(Block(t, p, r, now))
    /\ tampered = Untouched => \A i \in 1..Len(chain) : verify_integrity(chain[i])
    /\ tampered.field \in {"transactions", "timestamp", "roll_no", "prev_hash"}
         => ~verify_integrity(chain[tampered.index])

\* The timestamp of the tip was overwritten: the tip fails, the others pass.
C4_Witness ==
    /\ Len(chain) = 3
    /\ tampered = [field |-> "timestamp", index |-> 3]
    /\ ~verify_integrity(chain[3])
    /\ verify_integrity(chain[1])
    /\ verify_integrity(chain[2])

---------------------------------------------------------------------------
(* C5.  The chain is append-only: a step that changes it adds exactly one   *)
(* block at the end, whose prev_hash is the hash of the tip before and      *)
(* which holds the supplied batch and roll number, and leaves every block   *)
(* that was there where it was, as it was; chain[1] stays the genesis       *)
(* block.                                                                   *)
C5_AppendOnly ==
    [][ \/ chain' = chain
        \/ /\ Grew
           /\ \A i \in 1..Len(chain) : chain'[i] = chain[i]
           /\ Tip(chain').prev_hash = Tip(chain).hash
           /\ LET r == add_block(chain, accounts, Tip(chain').transactions,
                                 Tip(chain').roll_no, Tip(chain').timestamp)
              IN  r.ret /\ r.chain = chain'
           /\ chain'[1].transactions = GenesisMarker
           /\ chain'[1].prev_hash = Sentinel
      ]_vars

\* Two blocks were appended behind the genesis block, each linked to the one
\* before it.
C5_Witness ==
    /\ Len(chain) = 3
    /\ chain[1].transactions = GenesisMarker
    /\ chain[2].prev_hash = chain[1].hash
    /\ chain[3].prev_hash = chain[2].hash
    /\ chain[3].transactions.islist
    /\ Len(chain[3].transactions.items) > 0

---------------------------------------------------------------------------
(* C6.  Right after construction the chain holds the genesis block alone    *)
(* (its transactions the marker, not a list; its prev_hash "0") and the     *)
(* mirror holds Zakat_Account alone, at balance 0; no chain ever holds a    *)
(* second genesis block.                                                    *)
IsGenesis(b) ==
    /\ ~b.transactions.islist
    /\ b.transactions = GenesisMarker
    /\ b.prev_hash = Sentinel

C6_OneGenesisBlock ==
    /\ IsGenesis(chain[1])
    /\ \A i \in 2..Len(chain) : ~IsGenesis(chain[i])
    /\ Len(chain) = 1 =>
         /\ DOMAIN accounts = {ZakatAccount}
         /\ accounts[ZakatAccount].balance = 0

\* A later block was mined from the same non-list value as the genesis block
\* holds; it names a predecessor, so it is no genesis block.
C6_Witness ==
    /\ Len(chain) = 3
    /\ chain[2].transactions = GenesisMarker
    /\ IsGenesis(chain[1])
    /\ ~IsGenesis(chain[2])

---------------------------------------------------------------------------
(* C7.  validate_transaction_against_blockchain(sender, receiver, amount)   *)
(* answers ok exactly when the replayed balance of the sender is at least   *)
(* amount * 1.025, and insufficient funds otherwise, whoever the receiver   *)
(* is, whether or not the two are in the mirror, the same or not.           *)
C7_ValidateComparesReplayWithAmountPlusLevy ==
    LET replayed == [A \in Askable |-> Balance(chain, A)]
    IN  \A sender \in Askable, amount \in Asked :
            { validate_transaction_against_blockchain(chain, sender, receiver, amount) :
                  receiver \in {"Bob", sender} }
              = { IF replayed[sender] * 1000 >= amount * 1025
                  THEN "ok" ELSE "InsufficientFunds" }

\* After a mined transfer Alice, who is in the mirror, is refused 150 coins,
\* which a sender the mirror does not know is granted.
C7_Witness ==
    /\ Len(chain) > 1
    /\ "Alice" \in DOMAIN accounts
    /\ Stranger \notin DOMAIN accounts
    /\ validate_transaction_against_blockchain(chain, "Alice", "Bob", 150 * Coin)
         = "InsufficientFunds"
    /\ validate_transaction_against_blockchain(chain, Stranger, "Bob", 150 * Coin)
         = "ok"
    /\ validate_transaction_against_blockchain(chain, Stranger, "Bob", 200 * Coin)
         = "InsufficientFunds"

---------------------------------------------------------------------------
(* C8.  The replayed balance of A is its start balance (200, or 0 for the   *)
(* zakat account), minus, for every record sent by A, the record's amount   *)
(* (and a further amount * 0.025 when the record's type is transfer), plus, *)
(* for every record received by A, the record's amount: every record sent   *)
(* by A costs A at least its amount, whatever its type tag.                 *)
Cost(tx) ==
    tx.amount + (IF tx.type = "transfer" THEN calculate_zakat(tx.amount) ELSE 0)

SentBy(h, A) ==
    Sum([k \in 1..Len(h) |->
            IF h[k].isdict /\ h[k].sender = A THEN Cost(h[k]) ELSE 0])

ReceivedBy(h, A) ==
    Sum([k \in 1..Len(h) |->
            IF h[k].isdict /\ h[k].receiver = A THEN h[k].amount ELSE 0])

C8_EveryRecordSentIsDebited ==
    \A A \in Askable :
        LET h == get_transaction_history(chain)
        IN  Balance(chain, A)
              = (IF A = ZakatAccount THEN 0 ELSE 200 * Coin)
                - SentBy(h, A) + ReceivedBy(h, A)

---------------------------------------------------------------------------
(* C9.  For a name that is sender or receiver of no record of the chain,    *)
(* whatever else was mined and whether or not the mirror holds the name,    *)
(* the replayed balance is 200, or 0 for Zakat_Account.                     *)
Mentioned(c, A) ==
    LET h == get_transaction_history(c)
    IN  \E k \in 1..Len(h) : h[k].isdict /\ (h[k].sender = A \/ h[k].receiver = A)

C9_UnmentionedAccountHasStartBalance ==
    \A A \in Askable :
        ~Mentioned(chain, A)
          => Balance(chain, A) = (IF A = ZakatAccount THEN 0 ELSE 200 * Coin)

\* Records were mined that mention neither Bob, whom the mirror does not
\* hold, nor the zakat account, which it holds.
C9_Witness ==
    /\ Len(get_transaction_history(chain)) = 2
    /\ Mentioned(chain, "Alice")
    /\ ~Mentioned(chain, "Bob")
    /\ ~Mentioned(chain, ZakatAccount)
    /\ "Bob" \notin DOMAIN accounts
    /\ ZakatAccount \in DOMAIN accounts
    /\ Balance(chain, "Alice") # 200 * Coin
    /\ Balance(chain, "Bob") = 200 * Coin

---------------------------------------------------------------------------
(* C10.  On a successful add_block the mirror follows the batch record by   *)
(* record: the mirror gains the sender and the receiver it has not seen, at *)
(* balance 200, the sender is debited by the amount and the receiver        *)
(* credited with it, without levy; Zakat_Account never starts from 200, and *)
(* its mirror balance is 0 plus what it received minus what it sent.        *)
(*                                                                          *)
(* Counts(tx) says which entries of a batch the statement is about.         *)

\* As claimed: every record of the batch.
EveryRecord(tx) == tx.isdict

\* As the code has it: the records that name a sender and a receiver and
\* carry a positive amount.
GuardedRecord(tx) ==
    tx.isdict /\ tx.sender # "" /\ tx.receiver # "" /\ tx.amount > 0

Debited(h, A, Counts(_)) ==
    Sum([k \in 1..Len(h) |->
            IF Counts(h[k]) /\ h[k].sender = A THEN h[k].amount ELSE 0])

Credited(h, A, Counts(_)) ==
    Sum([k \in 1..Len(h) |->
            IF Counts(h[k]) /\ h[k].receiver = A THEN h[k].amount ELSE 0])

\* The mirror after the step is the mirror before it, moved by the batch of
\* the block the step appended.
MirrorFollowsBatch(Counts(_)) ==
    LET batch == get_transaction_history(<<Tip(chain')>>)
        seen == {k \in 1..Len(batch) : Counts(batch[k])}
    IN  /\ DOMAIN accounts' =
             DOMAIN accounts \cup {batch[k].sender : k \in seen}
                             \cup {batch[k].receiver : k \in seen}
        /\ \A A \in DOMAIN accounts' :
             accounts'[A].balance =
                 (IF A \in DOMAIN accounts THEN accounts[A].balance ELSE 200 * Coin)
                 - Debited(batch, A, Counts) + Credited(batch, A, Counts)

ZakatMirrorIsNetReceipts(acc, c, Counts(_)) ==
    LET h == get_transaction_history(c)
    IN  /\ ZakatAccount \in DOMAIN acc
        /\ acc[ZakatAccount].balance =
             0 + Credited(h, ZakatAccount, Counts) - Debited(h, ZakatAccount, Counts)

\* The claim as stated.
C10_MirrorFollowsEveryRecord ==
    [][ /\ Grew => MirrorFollowsBatch(EveryRecord)
        /\ ZakatMirrorIsNetReceipts(accounts', chain', EveryRecord)
      ]_vars

\* The claim as amended: the records the guard lets through move the mirror,
\* and the other entries of the batch leave it alone.
C10_MirrorFollowsGuardedRecords ==
    [][ /\ Grew => MirrorFollowsBatch(GuardedRecord)
        /\ ZakatMirrorIsNetReceipts(accounts', chain', GuardedRecord)
      ]_vars

\* A transfer and its levy were mined in one batch: the mirror gained Alice
\* and Bob, debited Alice by the amount and by the levy record's amount, and
\* the zakat account, never at 200, holds the levy.
C10_Witness ==
    /\ Len(chain) = 2
    /\ chain[2].transactions = PairBatch("Alice", "Bob", TransferAmount)
    /\ DOMAIN accounts = {"Alice", "Bob", ZakatAccount}
    /\ accounts["Alice"].balance
         = 200 * Coin - TransferAmount - calculate_zakat(TransferAmount)
    /\ accounts["Bob"].balance = 200 * Coin + TransferAmount
    /\ accounts[ZakatAccount].balance = calculate_zakat(TransferAmount)

---------------------------------------------------------------------------
(* C11.  Only a successful add_block changes the chain or the mirror: a     *)
(* step of validate_transaction_against_blockchain (accepting or refusing), *)
(* calculate_account_balance_from_history, is_valid, get_latest_block,      *)
(* get_block_by_index, get_chain_length, get_transaction_history,           *)
(* verify_block_integrity or get_roll_numbers_used, and of an add_block     *)
(* that returns false, leaves both as they were.                            *)
SuccessfulAddBlock == call'.op = "add_block" /\ call'.ret

C11_OnlyAddBlockChangesTheLedger ==
    [][ (tampered' = tampered /\ ~SuccessfulAddBlock)
          => (chain' = chain /\ accounts' = accounts) ]_vars

\* After a block was mined a validation refused a sender the mirror does
\* not hold, and the chain and the mirror are those the block left behind.
C11_Witness ==
    /\ Len(chain) = 2
    /\ call.op = "validate_transaction_against_blockchain"
    /\ call.ret = "InsufficientFunds"
    /\ call.args[1] \notin DOMAIN accounts
    /\ accounts = update_account_balances_from_block(InitAccounts, chain[2])

---------------------------------------------------------------------------
(* C12.  add_block returns true exactly when it appended the candidate      *)
(* block (which holds the batch and the roll number handed in, passes       *)
(* verify_integrity and names the hash of the tip) and moved the mirror by  *)
(* the batch; when it returns false, which it does on the empty chain, the  *)
(* chain and the mirror are as before the call.                             *)
AddBlockStep == tampered' = tampered /\ call'.op = "add_block"

AppendedCandidate ==
    /\ Len(chain) > 0
    /\ Len(chain') = Len(chain) + 1
    /\ SubSeq(chain', 1, Len(chain)) = chain
    /\ Tip(chain').transactions = call'.args[1]
    /\ Tip(chain').roll_no = call'.args[2]
    /\ verify_integrity(Tip(chain'))
    /\ Tip(chain').prev_hash = Tip(chain).hash
    /\ MirrorFollowsBatch(GuardedRecord)

C12_TrueIffAppendedFalseLeavesLedger ==
    [][ AddBlockStep =>
          /\ call'.ret <=> AppendedCandidate
          /\ ~call'.ret => (chain' = chain /\ accounts' = accounts /\ Len(chain) = 0)
      ]_vars

\* On the emptied chain add_block was handed a transfer and returned
\* false: the chain is still empty and the mirror holds the zakat
\* account alone.
C12_Witness ==
    /\ tampered.field = "chain"
    /\ call.op = "add_block"
    /\ call.args[1] = ListOf(<<Tx("Alice", "Bob", TransferAmount, "transfer")>>)
    /\ call.ret = FALSE
    /\ chain = <<>>
    /\ accounts = InitAccounts

---------------------------------------------------------------------------
(* C13.  add_block with a hand-crafted block whose prev_hash is not the     *)
(* hash of the tip is rejected: it returns false and the chain is as long   *)
(* as before.                                                               *)
C13_HandCraftedBlockRejected ==
    [][ ( /\ call'.op = "add_block"
          /\ call'.args[1].text = "dict"
          /\ call'.args[1].items[1].prev_hash # Tip(chain).hash )
          => (call'.ret = FALSE /\ Len(chain') = Len(chain)) ]_vars

---------------------------------------------------------------------------
(* C14.  In every state of the ledger and for every sender, the balance     *)
(* that Transaction.validate_against_blockchain compares with the amount is *)
(* the balance calculate_account_balance_from_history replays for the       *)
(* sender, so that the transaction is refused for insufficient funds        *)
(* exactly when that replayed balance is below the amount.                  *)
C14_TransactionComparesReplayedBalance ==
    \A sender \in Askable :
        /\ calculate_balance_from_blockchain(chain, accounts, sender)
             = Balance(chain, sender)
        /\ \A amount \in Asked :
             (validate_against_blockchain(chain, accounts, DOMAIN accounts,
                                          sender, "Bob", amount)
                = "InsufficientFunds")
               <=> Balance(chain, sender) < amount

---------------------------------------------------------------------------
(* C15.  Transaction.validate() answers EmptyIdentifier when the sender or  *)
(* the receiver is blank (the empty string), otherwise SelfTransfer when    *)
(* the two are the same, otherwise NonPositiveAmount when the amount is not *)
(* above 0, and ok in every other case; it raises nothing and changes       *)
(* neither the ledger nor a balance map.                                    *)
ValidateAnswersAsSpecified ==
    call.op = "validate" =>
        LET sender == call.args[1]
            receiver == call.args[2]
            amount == call.args[3]
            blank == sender = "" \/ receiver = ""
        IN  /\ call.ret \in {"EmptyIdentifier", "SelfTransfer", "NonPositiveAmount", "ok"}
            /\ call.ret = "EmptyIdentifier" <=> blank
            /\ call.ret = "SelfTransfer" <=> (~blank /\ sender = receiver)
            /\ call.ret = "NonPositiveAmount"
                 <=> (~blank /\ sender # receiver /\ amount <= 0)
            /\ call.ret = "ok" <=> (~blank /\ sender # receiver /\ amount > 0)

C15_ValidateOrderOfFailures ==
    /\ []ValidateAnswersAsSpecified
    /\ [][call'.op = "validate" => UNCHANGED <<chain, accounts, balances>>]_vars

\* A transaction with both names empty and a negative amount was validated:
\* of the three failures that apply, the first in the order was answered.
C15_Witness ==
    /\ call.op = "validate"
    /\ call.args = <<"", "", 0 - 50 * Coin>>
    /\ call.ret = "EmptyIdentifier"

---------------------------------------------------------------------------
(* C16.  Transaction.apply(balances) fails with UnknownAccount when the     *)
(* sender or the receiver is not in the map, otherwise NonPositiveAmount    *)
(* when the amount is not above 0, otherwise InsufficientFunds when the     *)
(* sender's balance is below the amount, and then leaves the map as it was; *)
(* otherwise it takes the amount from the sender's entry and adds it to the *)
(* receiver's, touches no other entry (the sum of the balances is the same, *)
(* the sender's balance is not below 0) and returns the map.                *)
RECURSIVE Total(_)
Total(m) ==
    IF DOMAIN m = {} THEN 0
    ELSE LET k == CHOOSE k \in DOMAIN m : TRUE
         IN  m[k] + Total([j \in DOMAIN m \ {k} |-> m[j]])

C16_ApplyMovesAmountOrFails ==
    call.op = "apply" =>
        LET sender == call.args[1]
            receiver == call.args[2]
            amount == call.args[3]
            before == call.args[4]
            raised == call.ret.raised
            absent == sender \notin DOMAIN before \/ receiver \notin DOMAIN before
        IN  /\ call.ret.accounts = balances
            /\ raised \in {"UnknownAccount", "NonPositiveAmount",
                            "InsufficientFunds", "none"}
            /\ raised = "UnknownAccount" <=> absent
            /\ raised = "NonPositiveAmount" <=> (~absent /\ amount <= 0)
            /\ raised = "InsufficientFunds"
                 <=> (~absent /\ amount > 0 /\ before[sender] < amount)
            /\ raised # "none" => balances = before
            /\ raised = "none" =>
                 /\ DOMAIN balances = DOMAIN before
                 /\ \A k \in DOMAIN before :
                      balances[k] = before[k]
                                    - (IF k = sender THEN amount ELSE 0)
                                    + (IF k = receiver THEN amount ELSE 0)
                 /\ Total(balances) = Total(before)
                 /\ balances[sender] >= 0

\* 50 coins went from Alice, who had just 50, to Bob, in a map that holds
\* the zakat account too, at a balance below 0.
C16_Witness ==
    /\ call.op = "apply"
    /\ call.ret.raised = "none"
    /\ call.args[1] = "Alice"
    /\ call.args[2] = "Bob"
    /\ call.args[3] = 50 * Coin
    /\ call.args[4] =
         ("Alice" :> 50 * Coin @@ "Bob" :> 0 @@ ZakatAccount :> 0 - 50 * Coin)
    /\ balances =
         ("Alice" :> 0 @@ "Bob" :> 50 * Coin @@ ZakatAccount :> 0 - 50 * Coin)

---------------------------------------------------------------------------
(* C17.  calculate_account_balance_from_history is a function of the batch  *)
(* records of the chain alone: what a call returns is the start balance     *)
(* moved by the records of the batches in chain order, whatever the mirror  *)
(* holds; a ledger that holds the same batches under other roll numbers,    *)
(* times and hashes returns the same; and a call that follows a call for    *)
(* the same account, with no other operation in between, returns the same.  *)

\* Another ledger with the batches of c: sealed by another roll number at
\* other times.
RECURSIVE Resealed(_, _)
Resealed(c, n) ==
    IF n = 1
    THEN <<Block(c[1].transactions, Sentinel, "r2", c[1].timestamp + 7)>>
    ELSE LET before == Resealed(c, n - 1)
         IN  Append(before, Block(c[n].transactions, before[n - 1].hash, "r2",
                                  c[n].timestamp + 7))

CalculateIsAFunctionOfTheBatches ==
    (tampered = Untouched /\ call.op = "calculate_account_balance_from_history") =>
        LET account_name == call.args[1]
            other == Resealed(chain, Len(chain))
        IN  /\ call.ret = ReplayEntries(StartBalance(account_name),
                                        get_transaction_history(chain), 1,
                                        account_name)
            /\ call.ret = calculate_account_balance_from_history(other, account_name)
            /\ get_transaction_history(other) = get_transaction_history(chain)
            /\ \A i \in 1..Len(chain) : other[i].hash # chain[i].hash

C17_CalculateIsPure ==
    /\ []CalculateIsAFunctionOfTheBatches
    /\ [][ ( /\ tampered = Untouched
             /\ tampered' = Untouched
             /\ call.op = "calculate_account_balance_from_history"
             /\ call'.op = call.op
             /\ call'.args = call.args )
             => call'.ret = call.ret ]_vars

\* The balance of Alice was asked for after two blocks were mined; the
\* mirror holds Alice at another balance than the one returned.
C17_Witness ==
    /\ Len(chain) = 3
    /\ tampered = Untouched
    /\ call.op = "calculate_account_balance_from_history"
    /\ call.args = <<"Alice">>
    /\ "Alice" \in DOMAIN accounts
    /\ call.ret # accounts["Alice"].balance
    /\ call.ret # 200 * Coin

---------------------------------------------------------------------------
(* C18.  Any tampering with a chain built by add_block is detected: once a  *)
(* field of a block of the chain, at any index, the tip included, holds     *)
(* another value, whether or not the block's hash was then overwritten with *)
(* its recomputed hash, is_valid() is false.                                *)
C18_AnyTamperingDetected ==
    tampered.field # "none" => ~is_valid(chain)

---------------------------------------------------------------------------
(* C19.  Two blocks built from the same transactions, prev_hash and         *)
(* timestamp under different roll numbers have different hashes, and two    *)
(* blocks whose transactions, timestamp, roll_no and prev_hash are all the  *)
(* same have the same hash, wherever and by whom they were built.           *)
SameButRollNo(a, b) ==
    /\ a.transactions = b.transactions
    /\ a.prev_hash = b.prev_hash
    /\ a.timestamp = b.timestamp
    /\ a.roll_no # b.roll_no

SameFourFields(a, b) ==
    /\ a.transactions = b.transactions
    /\ a.prev_hash = b.prev_hash
    /\ a.timestamp = b.timestamp
    /\ a.roll_no = b.roll_no

C19_RollNumberDiversifiesHash ==
    call.op = "Block" =>
        LET built == call.ret
            others == {chain[i] : i \in 1..Len(chain)}
                      \cup {Block(built.transactions, built.prev_hash, r,
                                  built.timestamp) : r \in Rolls \cup {"r2"}}
        IN  \A other \in others :
                /\ SameButRollNo(built, other) => built.hash # other.hash
                /\ SameFourFields(built, other) => built.hash = other.hash

\* A block was built by hand from the fields of the mined tip, under the
\* tip's roll number: it has the hash of the tip, and not the hash it has
\* under another roll number.
C19_Witness ==
    /\ Len(chain) = 2
    /\ call.op = "Block"
    /\ SameFourFields(call.ret, chain[2])
    /\ call.ret.hash = chain[2].hash
    /\ call.ret.hash
         # Block(chain[2].transactions, chain[2].prev_hash, "r2",
                 chain[2].timestamp).hash

---------------------------------------------------------------------------
(* C20.  The accessors agree with the chain: get_block_by_index(i) returns  *)
(* chain[i] for 0 <= i < length and None for every other integer, negative  *)
(* ones too; get_latest_block returns the block appended last;              *)
(* get_chain_length is 1 after construction and one more after every        *)
(* add_block that returns true, and only then; get_transaction_history is   *)
(* the batches of the list-typed blocks, one after the other in chain       *)
(* order.                                                                   *)

\* Where the batch of block i starts in the flattened history.
Offset(c, i) ==
    Sum([j \in 1..(i - 1) |->
            IF c[j].transactions.islist THEN Len(c[j].transactions.items) ELSE 0])

IsConcatenationOfBatches(h, c) ==
    /\ Len(h) = Offset(c, Len(c) + 1)
    /\ \A i \in 1..Len(c) :
         c[i].transactions.islist =>
            \A k \in 1..Len(c[i].transactions.items) :
                h[Offset(c, i) + k] = c[i].transactions.items[k]

AccessorsAgreeWithChain ==
    /\ call.op = "get_block_by_index" =>
         LET i == call.args[1]
         IN  IF 0 <= i /\ i < Len(chain)
             THEN call.ret = <<chain[i + 1]>>
             ELSE call.ret = None
    /\ (call.op = "get_latest_block" /\ Len(chain) > 0) =>
         call.ret = <<chain[Len(chain)]>>
    /\ call.op = "get_chain_length" => call.ret = Len(chain)
    /\ call.op = "get_transaction_history" =>
         IsConcatenationOfBatches(call.ret, chain)
    /\ (call.op = "none" /\ tampered = Untouched) => get_chain_length(chain) = 1

C20_AccessorsAgreeWithChain ==
    /\ []AccessorsAgreeWithChain
    /\ [][ tampered' = tampered =>
             IF SuccessfulAddBlock
             THEN /\ get_chain_length(chain') = get_chain_length(chain) + 1
                  /\ get_latest_block(chain') # None
                  /\ get_latest_block(chain')[1].transactions = call'.args[1]
                  /\ get_latest_block(chain')[1].roll_no = call'.args[2]
                  /\ get_latest_block(chain')[1].prev_hash
                       = get_latest_block(chain)[1].hash
             ELSE get_chain_length(chain') = get_chain_length(chain) ]_vars

\* With three blocks in the chain the block at index -1 was asked for, and
\* None was returned.
C20_Witness ==
    /\ tampered = Untouched
    /\ Len(chain) = 3
    /\ Len(get_transaction_history(chain)) = 2
    /\ call.op = "get_block_by_index"
    /\ call.args = <<0 - 1>>
    /\ call.ret = None

---------------------------------------------------------------------------
(* Vocabulary of the session *)

\* The working balance of every account of the session sess.
Working(sess) == [n \in DOMAIN sess.accounts |-> sess.accounts[n].balance]

\* The step is a call of op that returned success.
Succeeded(op) == call'.op = op /\ call'.ret[1]

\* The movement of the balance of A that the records h stand for.
Net(h, A) == Credited(h, A, EveryRecord) - Debited(h, A, EveryRecord)

---------------------------------------------------------------------------
(* C21.  Every successful perform_transaction(sender, receiver, amount)     *)
(* lowers the working balance of the sender by amount * 1.025, raises that  *)
(* of the receiver by amount and that of Zakat_Account by amount * 0.025,   *)
(* changes no other working balance, appends the transfer record and then   *)
(* the zakat record to the pending queue, appends two entries to the        *)
(* transaction history of the session, and leaves the chain as it is.       *)
C21_AcceptedTransferMovesWorkingBalances ==
    [][ Succeeded("perform_transaction") =>
          LET sender == call'.args[1]
              receiver == call'.args[2]
              amount == call'.args[3]
              before == Working(session_state)
              after == Working(session_state')
          IN  /\ DOMAIN after = DOMAIN before
              /\ after[sender] = before[sender] - amount - calculate_zakat(amount)
              /\ after[receiver] = before[receiver] + amount
              /\ after[ZakatAccount] = before[ZakatAccount] + calculate_zakat(amount)
              /\ \A n \in DOMAIN before \ {sender, receiver, ZakatAccount} :
                    after[n] = before[n]
              /\ session_state'.pending_transactions =
                    session_state.pending_transactions \o
                    <<Tx(sender, receiver, amount, "transfer"),
                      Tx(sender, ZakatAccount, calculate_zakat(amount), "zakat")>>
              /\ Len(session_state'.transaction_history) =
                    Len(session_state.transaction_history) + 2
              /\ chain' = chain
      ]_vars

---------------------------------------------------------------------------
(* C22.  perform_transaction is all-or-nothing.  It returns failure when    *)
(* the sender or the receiver is unknown, the amount is <= 0, the ledger's  *)
(* validation rejects, or one of the two applies raises (the levy's, too,   *)
(* after the transfer's passed on the temporary map), and success           *)
(* otherwise; when it returns failure the working balances, the pending     *)
(* queue, the transaction history of the session and the chain are as they  *)
(* were before the call.  The exception of an apply is returned as the      *)
(* message of the failure.                                                  *)
ShouldFail(sender, receiver, amount) ==
    LET w == Working(session_state)
    IN  \/ sender \notin DOMAIN w
        \/ receiver \notin DOMAIN w
        \/ amount <= 0
        \/ Balance(chain, sender) * 1000 < amount * 1025
        \/ w[sender] < amount
        \/ (IF receiver = sender THEN w[sender] ELSE w[sender] - amount)
             < calculate_zakat(amount)

C22_RefusedTransferChangesNothing ==
    [][ call'.op = "perform_transaction" =>
          /\ call'.ret[1] = ~ShouldFail(call'.args[1], call'.args[2], call'.args[3])
          /\ ~call'.ret[1] => UNCHANGED <<session_state, chain, accounts>>
      ]_vars

\* With records pending, a transfer passed every test and the apply of the
\* transfer, and the apply of the levy raised: the sender holds the amount
\* and not the amount and the levy.
C22_Witness ==
    /\ call.op = "perform_transaction"
    /\ call.ret = <<FALSE, "Transaction failed: InsufficientFunds">>
    /\ call.args[1] # call.args[2]
    /\ call.args[2] \in DOMAIN session_state.accounts
    /\ session_state.accounts[call.args[1]].balance >= call.args[3]
    /\ session_state.accounts[call.args[1]].balance
         < call.args[3] + calculate_zakat(call.args[3])
    /\ Len(session_state.pending_transactions) = 2
    /\ Len(session_state.transaction_history) = 2

---------------------------------------------------------------------------
(* C23.  mine_block with an empty pending queue returns failure and leaves  *)
(* the chain, the mirror and the queue as they are.  With records pending   *)
(* it calls add_block once with all of them: on success the chain is one    *)
(* block longer, the new tip holds exactly the records that were pending,   *)
(* in queue order, and the queue is empty; on failure the queue is          *)
(* unchanged.                                                               *)
C23_MineBlockSealsThePendingRecords ==
    [][ call'.op = "mine_block" =>
          LET pending == session_state.pending_transactions
          IN  IF pending = <<>>
              THEN /\ ~call'.ret[1]
                   /\ UNCHANGED <<chain, accounts, session_state>>
              ELSE IF call'.ret[1]
              THEN /\ Grew
                   /\ \A i \in 1..Len(chain) : chain'[i] = chain[i]
                   /\ Tip(chain').transactions = ListOf(pending)
                   /\ LET r == add_block(chain, accounts, ListOf(pending),
                                         Tip(chain').roll_no, Tip(chain').timestamp)
                      IN  r.ret /\ r.chain = chain' /\ r.accounts = accounts'
                   /\ session_state'.pending_transactions = <<>>
                   /\ session_state'.accounts = session_state.accounts
              ELSE /\ session_state'.pending_transactions = pending
                   /\ UNCHANGED <<chain, accounts>>
      ]_vars

\* Two transfers of different senders were accepted and then mined in one
\* block of four records.
C23_Witness ==
    /\ call.op = "mine_block"
    /\ call.ret[1]
    /\ Len(chain) = 2
    /\ Len(Tip(chain).transactions.items) = 4
    /\ Tip(chain).transactions.items[1].type = "transfer"
    /\ Tip(chain).transactions.items[2].type = "zakat"
    /\ Tip(chain).transactions.items[3].sender # Tip(chain).transactions.items[1].sender
    /\ session_state.pending_transactions = <<>>
    /\ Len(session_state.transaction_history) = 4

---------------------------------------------------------------------------
(* C24.  In every state of every interleaving of create_account,            *)
(* perform_transaction and mine_block, get_transaction_history() followed   *)
(* by the pending queue is the sequence of the records of the successful    *)
(* perform_transaction calls, in the order of acceptance: a step adds the   *)
(* two records of the transfer it accepted at the end and changes nothing   *)
(* else of the sequence.  The transaction history of the session names the  *)
(* same records in the same order, and so has the same length.              *)
AllRecords(sess, c) == get_transaction_history(c) \o sess.pending_transactions

\* The record of the ledger that an entry of transaction_history stands for.
Recorded(h) == Tx(h.sender, h.receiver, h.amount, h.type)

HistoryNamesAllRecords ==
    /\ Len(session_state.transaction_history)
         = Len(AllRecords(session_state, chain))
    /\ [k \in 1..Len(session_state.transaction_history) |->
            Recorded(session_state.transaction_history[k])]
         = AllRecords(session_state, chain)

C24_NoAcceptedRecordLost ==
    /\ []HistoryNamesAllRecords
    /\ [][ AllRecords(session_state', chain') =
             AllRecords(session_state, chain) \o
             ( IF Succeeded("perform_transaction")
               THEN <<Tx(call'.args[1], call'.args[2], call'.args[3], "transfer"),
                      Tx(call'.args[1], ZakatAccount,
                         calculate_zakat(call'.args[3]), "zakat")>>
               ELSE <<>> )
         ]_vars

\* A transfer was mined and another one, of another sender, is pending.
C24_Witness ==
    /\ Len(chain) = 2
    /\ Len(get_transaction_history(chain)) = 2
    /\ Len(session_state.pending_transactions) = 2
    /\ session_state.pending_transactions[1].sender
         # get_transaction_history(chain)[1].sender
    /\ Len(session_state.transaction_history) = 4

---------------------------------------------------------------------------
(* C25.  When every account is created with the default balance 200, then   *)
(* in every state of every interleaving of perform_transaction and          *)
(* mine_block the replayed balance of every account is >= 0: no sequence of *)
(* accepted and mined transfers overdraws                                   *)
(* calculate_account_balance_from_history.                                  *)
C25_ReplayedBalanceNeverNegative ==
    \A A \in Names \cup {Stranger} : Balance(chain, A) >= 0

---------------------------------------------------------------------------
(* C26.  After any sequence of successful add_block calls whose batches are *)
(* (transfer, zakat) pairs as perform_transaction queues them, the mirror   *)
(* balance of every account the mirror holds is the replayed balance of the *)
(* account: the cache agrees with the authoritative replay.                 *)
(*                                                                          *)
(* The pairs are those of transfers between two different accounts.         *)
IsPairs(items) ==
    /\ Len(items) % 2 = 0
    /\ \A k \in 1..Len(items) :
          k % 2 = 1 =>
             /\ items[k].isdict
             /\ items[k].type = "transfer"
             /\ items[k].sender # ""
             /\ items[k].receiver # ""
             /\ items[k].sender # items[k].receiver
             /\ items[k].amount > 0
             /\ items[k + 1] = Tx(items[k].sender, ZakatAccount,
                                  calculate_zakat(items[k].amount), "zakat")

MinedPairsOnly ==
    \A i \in 2..Len(chain) :
        chain[i].transactions.islist /\ IsPairs(chain[i].transactions.items)

C26_MirrorAgreesWithReplay ==
    MinedPairsOnly =>
        \A A \in DOMAIN accounts : accounts[A].balance = Balance(chain, A)

---------------------------------------------------------------------------
(* C27.  add_block conserves the total of the mirror: in every state        *)
(* reached from Blockchain() by add_block calls the balances of the mirror  *)
(* add up to 200 times the number of its entries other than Zakat_Account.  *)
(* Coins are moved and never created or destroyed, also by a record whose   *)
(* sender is its receiver and by a record sent by Zakat_Account.            *)
C27_MirrorTotalConserved ==
    Total([n \in DOMAIN accounts |-> accounts[n].balance])
      = 200 * Coin * Cardinality(DOMAIN accounts \ {ZakatAccount})

\* A record of Alice to herself and a record sent by the zakat account were
\* mined: the zakat account is overdrawn by what Alice gained.
C27_Witness ==
    LET h == get_transaction_history(chain)
    IN  /\ \E k \in 1..Len(h) : h[k] = Tx("Alice", "Alice", TransferAmount, "transfer")
        /\ \E k \in 1..Len(h) : h[k] = Tx(ZakatAccount, "Alice", TransferAmount, "transfer")
        /\ DOMAIN accounts = {"Alice", ZakatAccount}
        /\ accounts[ZakatAccount].balance = 0 - TransferAmount
        /\ accounts["Alice"].balance = 200 * Coin + TransferAmount

---------------------------------------------------------------------------
(* C28.  In every state of every interleaving of create_account,            *)
(* perform_transaction and mine_block every working balance of the session  *)
(* is >= 0 and the working balances add up to the balances the accounts     *)
(* were created with, Zakat_Account starting at 0: the total is 0 at first, *)
(* a successful create_account adds its balance to it, and no other step    *)
(* changes it.                                                              *)
WorkingBalancesNotNegative ==
    /\ \A n \in DOMAIN session_state.accounts :
          session_state.accounts[n].balance >= 0
    /\ DOMAIN session_state.accounts = {ZakatAccount} =>
          Total(Working(session_state)) = 0

C28_WorkingTotalIsWhatWasCreated ==
    /\ []WorkingBalancesNotNegative
    /\ [][ Total(Working(session_state')) =
             Total(Working(session_state))
             + (IF Succeeded("create_account") THEN call'.args[2] ELSE 0)
         ]_vars

\* Accounts were created with 50 and with 200 coins and two transfers were
\* accepted: the zakat account holds levy, a student holds less than 50, and
\* the total is 250.
C28_Witness ==
    /\ DOMAIN session_state.accounts = Names
    /\ Len(session_state.transaction_history) = 4
    /\ session_state.accounts[ZakatAccount].balance > 0
    /\ \E n \in Students : session_state.accounts[n].balance < 50 * Coin
    /\ Total(Working(session_state)) = 250 * Coin

---------------------------------------------------------------------------
(* C29.  When every account is created with balance 200: in every state in  *)
(* which nothing is pending, the working balance of every account that      *)
(* appears in a mined record is the balance the mirror of the ledger holds  *)
(* for it; while records are pending the working balance is the mirror's    *)
(* plus the net effect of the pending records on the account.               *)
MinedAccounts ==
    LET h == get_transaction_history(chain)
    IN  {h[k].sender : k \in 1..Len(h)} \cup {h[k].receiver : k \in 1..Len(h)}

C29_WorkingBalanceIsMirrorPlusPending ==
    \A A \in MinedAccounts :
        /\ A \in DOMAIN session_state.accounts
        /\ A \in DOMAIN accounts
        /\ session_state.pending_transactions = <<>> =>
              session_state.accounts[A].balance = accounts[A].balance
        /\ session_state.accounts[A].balance
             = accounts[A].balance + Net(session_state.pending_transactions, A)

\* Two blocks were mined, nothing is pending, and Alice, Bob and the zakat
\* account, all three in mined records, each hold another balance than they
\* started with.
C29_Witness ==
    /\ Len(chain) = 3
    /\ session_state.pending_transactions = <<>>
    /\ MinedAccounts = Names
    /\ \A A \in Students : accounts[A].balance # 200 * Coin
    /\ accounts[ZakatAccount].balance > 0
    /\ \A A \in Names : session_state.accounts[A].balance = accounts[A].balance

---------------------------------------------------------------------------
(* C30.  If mine_block is invoked, sooner or later, whenever records are    *)
(* pending, every record that a successful perform_transaction queued       *)
(* appears in get_transaction_history() in the end, at the place it has in  *)
(* the order of acceptance; and a record that get_transaction_history()     *)
(* holds is held at the same position in every later state.                 *)

\* The session accepted at least k records, mined or pending.
Accepted(k) == k <= Len(AllRecords(session_state, chain))

\* get_transaction_history() holds at least k records.
InHistory(k) == k <= Len(get_transaction_history(chain))

\* The accepted records stay what and where they are, the mined ones among
\* them: the k-th record of get_transaction_history() is the k-th accepted.
RecordsStay ==
    /\ \A k \in 1..Len(AllRecords(session_state, chain)) :
          /\ k <= Len(AllRecords(session_state', chain'))
          /\ AllRecords(session_state', chain')[k]
               = AllRecords(session_state, chain)[k]
    /\ \A k \in 1..Len(get_transaction_history(chain)) :
          /\ k <= Len(get_transaction_history(chain'))
          /\ get_transaction_history(chain')[k] = get_transaction_history(chain)[k]

\* The steps that the fairness of FairSpec is about are the successful calls
\* of mine_block, and no others.
FairStepsAreMineBlock ==
    (QueueEmptied /\ session_state' # session_state) <=> Succeeded("mine_block")

C30_QueuedRecordsAreMinedAndStay ==
    /\ \A k \in 1..(2 * MaxTransfers) : Accepted(k) ~> InHistory(k)
    /\ [][RecordsStay]_vars
    /\ [][FairStepsAreMineBlock]_vars

\* Two transfers were accepted and mined in two blocks: the records of the
\* first are where they were before the second block, and nothing is pending.
C30_Witness ==
    /\ Len(chain) = 3
    /\ session_state.pending_transactions = <<>>
    /\ Len(get_transaction_history(chain)) = 4
    /\ get_transaction_history(<<chain[1], chain[2]>>)
         = <<get_transaction_history(chain)[1], get_transaction_history(chain)[2]>>
    /\ \A k \in 1..4 :
          get_transaction_history(chain)[k]
            = Recorded(session_state.transaction_history[k])

====
